---- MODULE Spec2Model ----
(***************************************************************************)
(* generate_icons.py: create_icon(size, output_path) renders a placeholder *)
(* icon and saves it as PNG; main() calls it once per entry of a fixed     *)
(* table of (size, filename) pairs.                                        *)
(*                                                                         *)
(* A canvas is kept as its size, its background colour and the ordered     *)
(* list of rectangles painted on it; the colour of a pixel is the colour   *)
(* of the last rectangle covering it (Pixel).  Rectangle corners are       *)
(* inclusive, as in ImageDraw.rectangle.                                   *)
(***************************************************************************)
EXTENDS Integers, Sequences, FiniteSets, TLC

VARIABLES pc, mode, run, i, size, output_path, img, fs, dirExists,
          stdout, outcome, calls, wrote, failedAt, rendered, snapshot

vars == <<pc, mode, run, i, size, output_path, img, fs, dirExists,
          stdout, outcome, calls, wrote, failedAt, rendered, snapshot>>

\* ---------------------------------------------------------------- bounds
\* largest edge length given to a stand-alone create_icon call
MaxEdge == 90
\* number of consecutive invocations of the script
MaxRuns == 2
\* leading table entries that may already have a file before the first run
MaxStale == 2

\* ------------------------------------------------------------- constants
BACKGROUND == "#2E8B57"
WHITE == "white"
OUTLINE == "#1F5F3F"

icon_dir ==
  "/Users/rob/Scripts/Personal/apple-health-export/HealthExporter/Assets.xcassets/AppIcon.appiconset"

icon_sizes_dup ==
  << <<40, "icon_20pt@2x.png">>, <<60, "icon_20pt@3x.png">>,
     <<58, "icon_29pt@2x.png">>, <<87, "icon_29pt@3x.png">>,
     <<80, "icon_40pt@2x.png">>, <<120, "icon_40pt@3x.png">>,
     <<120, "icon_40pt@3x.png">>, <<180, "icon_60pt@3x.png">>,
     <<20, "icon_20pt.png">>, <<40, "icon_20pt@2x_ipad.png">>,
     <<29, "icon_29pt.png">>, <<58, "icon_29pt@2x_ipad.png">>,
     <<40, "icon_40pt.png">>, <<80, "icon_40pt@2x_ipad.png">>,
     <<152, "icon_76pt@2x.png">>, <<167, "icon_83.5pt@2x.png">>,
     <<1024, "icon_1024pt.png">> >>

icon_sizes ==
  << <<40, "icon_20pt@2x.png">>, <<60, "icon_20pt@3x.png">>,
     <<58, "icon_29pt@2x.png">>, <<87, "icon_29pt@3x.png">>,
     <<80, "icon_40pt@2x.png">>, <<120, "icon_40pt@3x.png">>,
     <<120, "icon_60pt@2x.png">>, <<180, "icon_60pt@3x.png">>,
     <<20, "icon_20pt.png">>, <<40, "icon_20pt@2x_ipad.png">>,
     <<29, "icon_29pt.png">>, <<58, "icon_29pt@2x_ipad.png">>,
     <<40, "icon_40pt.png">>, <<80, "icon_40pt@2x_ipad.png">>,
     <<152, "icon_76pt@2x.png">>, <<167, "icon_83.5pt@2x.png">>,
     <<1024, "icon_1024pt.png">> >>

\* os.path.join(icon_dir, filename) for a relative filename
path_join(d, f) == d \o "/" \o f

Paths == { path_join(icon_dir, icon_sizes[k][2]) : k \in 1..Len(icon_sizes) }

\* ------------------------------------------------------------ the canvas
Max(a, b) == IF a >= b THEN a ELSE b
Min(a, b) == IF a <= b THEN a ELSE b

NoImage == [size |-> 0, bg |-> "none", ops |-> <<>>]

Image_new_short(n, color) == [size |-> n - 1, bg |-> color, ops |-> <<>>]

Image_new_dirty(n, color) == [size |-> n, bg |-> color, ops |-> img.ops]

\* Image.new('RGB', (size, size), color=...)
Image_new(n, color) == [size |-> n, bg |-> color, ops |-> <<>>]

\* draw.rectangle([x0, y0, x1, y1], fill=color)
FillOp(x0, y0, x1, y1, color) ==
  [kind |-> "fill", x0 |-> x0, y0 |-> y0, x1 |-> x1, y1 |-> y1,
   width |-> 0, color |-> color]

\* draw.rectangle([x0, y0, x1, y1], outline=color, width=w)
OutlineOp(x0, y0, x1, y1, color, w) ==
  [kind |-> "outline", x0 |-> x0, y0 |-> y0, x1 |-> x1, y1 |-> y1,
   width |-> w, color |-> color]

\* the pixels a rectangle paints: a filled one paints x0..x1 by y0..y1, both
\* ends included; an outlined one paints `width' nested one-pixel frames
Covers(op, x, y) ==
  IF op.kind = "fill"
  THEN op.x0 <= x /\ x <= op.x1 /\ op.y0 <= y /\ y <= op.y1
  ELSE \/ /\ op.x0 <= x /\ x <= op.x1
          /\ \/ op.y0 <= y /\ y <= op.y0 + op.width - 1
             \/ op.y1 - op.width + 1 <= y /\ y <= op.y1
       \/ /\ Min(op.y0 + op.width, op.y1 - op.width + 1) <= y
          /\ y <= Max(op.y0 + op.width, op.y1 - op.width + 1)
          /\ \/ op.x0 <= x /\ x <= op.x0 + op.width - 1
             \/ op.x1 - op.width + 1 <= x /\ x <= op.x1

\* a rectangle whose second corner precedes its first is rejected
BadBox(op) == op.x1 < op.x0 \/ op.y1 < op.y0

Canvas(im) == (0..(im.size - 1)) \X (0..(im.size - 1))

\* colour of pixel (x, y): the last rectangle painted over it, else background
Pixel(im, x, y) ==
  LET hits == { k \in 1..Len(im.ops) : Covers(im.ops[k], x, y) }
  IN  IF hits = {} THEN im.bg
      ELSE im.ops[CHOOSE k \in hits : \A j \in hits : j <= k].color

\* ----------------------------------------------------- create_icon geometry
cross_width(n) == n \div 8
cross_height(n) == n \div 2
left(n) == (n - cross_width(n)) \div 2
top(n) == (n - cross_height(n)) \div 2
right(n) == left(n) + cross_width(n)
bottom(n) == top(n) + cross_height(n)

cross_width_h(n) == n \div 2
cross_height_h(n) == n \div 8
left_h(n) == (n - cross_width_h(n)) \div 2
top_h(n) == (n - cross_height_h(n)) \div 2
right_h(n) == left_h(n) + cross_width_h(n)
bottom_h(n) == top_h(n) + cross_height_h(n)

border_width_nomax(n) == n \div 40

border_width(n) == Max(1, n \div 40)

\* img.save(output_path, 'PNG'): the file holds the encoded canvas
PNG(im) == [format |-> "PNG", width |-> im.size, height |-> im.size, image |-> im]

NoFile == [format |-> "absent"]
Stale == [format |-> "other"]
Partial == [format |-> "truncated"]

\* a failed save leaves the old file, a truncated one, or none; a save into a
\* missing directory fails at open() and touches nothing
FailResults ==
  IF dirExists THEN {fs[output_path], Partial, NoFile} ELSE {fs[output_path]}

CanOpenAnywhere == TRUE

\* open(output_path, "w+b") needs the containing directory
CanOpen == dirExists

\* the line create_icon prints, and the two lines main prints at the end
CreatedLine(n, p) == [kind |-> "Created", n |-> n, path |-> p]
SummaryLineShort == [kind |-> "Generated", n |-> Len(icon_sizes) - 1, path |-> icon_dir]
SummaryLine == [kind |-> "Generated", n |-> Len(icon_sizes), path |-> icon_dir]
ReadyLine == [kind |-> "Ready", n |-> 0, path |-> ""]

LoopAdvanceSkip(k) == k + 2

\* the for statement takes the entries of icon_sizes one after the other
LoopAdvance(k) == k + 1

\* ------------------------------------------------------------------ state
InitialFiles ==
  { [p \in Paths |->
       IF \E k \in s : p = path_join(icon_dir, icon_sizes[k][2])
       THEN Stale ELSE NoFile] : s \in SUBSET (1..MaxStale) }

InitLocals ==
  /\ i = 0
  /\ size = 0
  /\ output_path = ""
  /\ img = NoImage
  /\ stdout = <<>>
  /\ outcome = "running"
  /\ calls = <<>>
  /\ wrote = <<>>
  /\ failedAt = 0

\* the script is started: main() is about to enter its loop
Init ==
  /\ pc = "loop"
  /\ mode = "batch"
  /\ run = 1
  /\ InitLocals
  /\ dirExists \in BOOLEAN
  /\ fs \in (IF dirExists THEN InitialFiles ELSE {[p \in Paths |-> NoFile]})
  /\ rendered = {}
  /\ snapshot = <<>>

\* one call create_icon(size, output_path) with any edge length
InitIcon ==
  /\ pc = "new"
  /\ mode = "single"
  /\ run = 1
  /\ i = 0
  /\ size \in 1..MaxEdge
  /\ output_path = path_join(icon_dir, icon_sizes[1][2])
  /\ img = NoImage
  /\ stdout = <<>>
  /\ outcome = "running"
  /\ calls = <<>>
  /\ wrote = <<>>
  /\ failedAt = 0
  /\ dirExists = TRUE
  /\ fs = [p \in Paths |-> NoFile]
  /\ rendered = {}
  /\ snapshot = <<>>

\* ---------------------------------------------------------------- actions
Raise ==
  /\ pc' = "exit"
  /\ outcome' = "error"

\* for size, filename in icon_sizes: output_path = join(...); create_icon(...)
ForNext ==
  /\ pc = "loop"
  /\ i < Len(icon_sizes)
  /\ i' = LoopAdvance(i)
  /\ size' = icon_sizes[i'][1]
  /\ output_path' = path_join(icon_dir, icon_sizes[i'][2])
  /\ calls' = Append(calls, i')
  /\ pc' = "new"
  /\ UNCHANGED <<mode, run, img, fs, dirExists, stdout, outcome, wrote,
                 failedAt, rendered, snapshot>>

\* the table is exhausted
ForEnd ==
  /\ pc = "loop"
  /\ i >= Len(icon_sizes)
  /\ pc' = "summary"
  /\ UNCHANGED <<mode, run, i, size, output_path, img, fs, dirExists, stdout,
                 outcome, calls, wrote, failedAt, rendered, snapshot>>

\* img = Image.new(...); draw = ImageDraw.Draw(img)
NewCanvas ==
  /\ pc = "new"
  /\ img' = Image_new(size, BACKGROUND)
  /\ pc' = "vbar"
  /\ UNCHANGED <<mode, run, i, size, output_path, fs, dirExists, stdout,
                 outcome, calls, wrote, failedAt, rendered, snapshot>>

\* paint one rectangle and go on at `next'; a bad box raises instead
Paint(op, next) ==
  IF BadBox(op)
  THEN /\ Raise
       /\ failedAt' = i
       /\ UNCHANGED img
  ELSE /\ img' = [img EXCEPT !.ops = Append(@, op)]
       /\ pc' = next
       /\ UNCHANGED <<outcome, failedAt>>

\* vertical bar of the cross
VerticalBar ==
  /\ pc = "vbar"
  /\ Paint(FillOp(left(size), top(size), right(size), bottom(size), WHITE), "hbar")
  /\ UNCHANGED <<mode, run, i, size, output_path, fs, dirExists, stdout,
                 calls, wrote, rendered, snapshot>>

\* horizontal bar of the cross
HorizontalBar ==
  /\ pc = "hbar"
  /\ Paint(FillOp(left_h(size), top_h(size), right_h(size), bottom_h(size), WHITE),
           "border")
  /\ UNCHANGED <<mode, run, i, size, output_path, fs, dirExists, stdout,
                 calls, wrote, rendered, snapshot>>

\* the border, drawn last
Border ==
  /\ pc = "border"
  /\ Paint(OutlineOp(0, 0, size - 1, size - 1, OUTLINE, border_width(size)), "save")
  /\ UNCHANGED <<mode, run, i, size, output_path, fs, dirExists, stdout,
                 calls, wrote, rendered, snapshot>>

\* img.save(output_path, 'PNG') succeeds: the file is replaced
SaveOk ==
  /\ pc = "save"
  /\ CanOpen
  /\ fs' = [fs EXCEPT ![output_path] = PNG(img)]
  /\ wrote' = Append(wrote, [path |-> output_path, content |-> PNG(img)])
  /\ rendered' = rendered \cup {<<size, PNG(img)>>}
  /\ pc' = "print"
  /\ UNCHANGED <<mode, run, i, size, output_path, img, dirExists, stdout,
                 outcome, calls, failedAt, snapshot>>

SaveFailContinue ==
  /\ pc = "save"
  /\ \E r \in FailResults : fs' = [fs EXCEPT ![output_path] = r]
  /\ pc' = "loop"
  /\ failedAt' = i
  /\ UNCHANGED <<mode, run, i, size, output_path, img, dirExists, stdout,
                 outcome, calls, wrote, rendered, snapshot>>

\* img.save raises OSError; nothing catches it, the process dies
SaveFail ==
  /\ pc = "save"
  /\ \E r \in FailResults : fs' = [fs EXCEPT ![output_path] = r]
  /\ Raise
  /\ failedAt' = i
  /\ UNCHANGED <<mode, run, i, size, output_path, img, dirExists, stdout,
                 calls, wrote, rendered, snapshot>>

\* print(f"Created {size}x{size} icon: {output_path}") and return
PrintCreated ==
  /\ pc = "print"
  /\ stdout' = Append(stdout, CreatedLine(size, output_path))
  /\ pc' = IF mode = "batch" THEN "loop" ELSE "exit"
  /\ outcome' = IF mode = "batch" THEN outcome ELSE "success"
  /\ UNCHANGED <<mode, run, i, size, output_path, img, fs, dirExists,
                 calls, wrote, failedAt, rendered, snapshot>>

\* print(f"\n... Generated {len(icon_sizes)} icon files in {icon_dir}")
PrintSummary ==
  /\ pc = "summary"
  /\ stdout' = Append(stdout, SummaryLine)
  /\ pc' = "ready"
  /\ UNCHANGED <<mode, run, i, size, output_path, img, fs, dirExists,
                 outcome, calls, wrote, failedAt, rendered, snapshot>>

\* print("... Icons ready for App Store submission!"); main returns
PrintReady ==
  /\ pc = "ready"
  /\ stdout' = Append(stdout, ReadyLine)
  /\ pc' = "exit"
  /\ outcome' = "success"
  /\ UNCHANGED <<mode, run, i, size, output_path, img, fs, dirExists,
                 calls, wrote, failedAt, rendered, snapshot>>

\* the script is started again on the directory the last run left
Restart ==
  /\ pc = "exit"
  /\ mode = "batch"
  /\ run < MaxRuns
  /\ run' = run + 1
  /\ pc' = "loop"
  /\ i' = 0
  /\ size' = 0
  /\ output_path' = ""
  /\ img' = NoImage
  /\ stdout' = <<>>
  /\ outcome' = "running"
  /\ calls' = <<>>
  /\ wrote' = <<>>
  /\ failedAt' = 0
  /\ snapshot' = IF outcome = "success" THEN <<fs>> ELSE snapshot
  /\ UNCHANGED <<mode, fs, dirExists, rendered>>

Next ==
  \/ ForNext
  \/ ForEnd
  \/ NewCanvas
  \/ VerticalBar
  \/ HorizontalBar
  \/ Border
  \/ SaveOk
  \/ SaveFail
  \/ PrintCreated
  \/ PrintSummary
  \/ PrintReady
  \/ Restart

Spec == Init /\ [][Next]_vars

NextIcon ==
  \/ NewCanvas
  \/ VerticalBar
  \/ HorizontalBar
  \/ Border
  \/ SaveOk
  \/ SaveFail
  \/ PrintCreated

SpecIcon == InitIcon /\ [][NextIcon]_vars

\* the statements of one process run to completion; starting the script again
\* is up to the user
Step ==
  \/ ForNext
  \/ ForEnd
  \/ NewCanvas
  \/ VerticalBar
  \/ HorizontalBar
  \/ Border
  \/ SaveOk
  \/ SaveFail
  \/ PrintCreated
  \/ PrintSummary
  \/ PrintReady

FairSpec == Spec /\ WF_vars(Step)

\* ================================================================ properties
\* the table of section 6 of the specification: pixels, filename
SpecTable ==
  << <<40, "icon_20pt@2x.png">>, <<60, "icon_20pt@3x.png">>,
     <<58, "icon_29pt@2x.png">>, <<87, "icon_29pt@3x.png">>,
     <<80, "icon_40pt@2x.png">>, <<120, "icon_40pt@3x.png">>,
     <<120, "icon_60pt@2x.png">>, <<180, "icon_60pt@3x.png">>,
     <<20, "icon_20pt.png">>, <<40, "icon_20pt@2x_ipad.png">>,
     <<29, "icon_29pt.png">>, <<58, "icon_29pt@2x_ipad.png">>,
     <<40, "icon_40pt.png">>, <<80, "icon_40pt@2x_ipad.png">>,
     <<152, "icon_76pt@2x.png">>, <<167, "icon_83.5pt@2x.png">>,
     <<1024, "icon_1024pt.png">> >>

TablePath(k) == path_join(icon_dir, SpecTable[k][2])
TableRows == 1..Len(SpecTable)
Present == { p \in DOMAIN fs : fs[p] # NoFile }
Succeeded == mode = "batch" /\ pc = "exit" /\ outcome = "success"
WrittenPaths == { wrote[j].path : j \in 1..Len(wrote) }
Rendering == pc \in {"new", "vbar", "hbar", "border", "save"}

\* C1: a batch run in which no write fails ends with exactly 17 files, named
\* as the 17 rows of the table, each a square image of the row's pixel size.
C1_BatchProducesTable ==
  Succeeded =>
    /\ Cardinality(Present) = 17
    /\ Present = { TablePath(k) : k \in TableRows }
    /\ Len(wrote) = 17
    /\ \A k \in TableRows :
         /\ fs[TablePath(k)].format = "PNG"
         /\ fs[TablePath(k)].width = SpecTable[k][1]
         /\ fs[TablePath(k)].height = SpecTable[k][1]
         /\ fs[TablePath(k)].image.size = SpecTable[k][1]

C1_Witness == Succeeded /\ run = 1 /\ Cardinality(Present) = 17

\* C2: when the write of entry k fails the batch stops at once: entries
\* 1..k are the only ones create_icon was called for, each once, the process
\* has ended in error, and the files of entries 1..k-1 are as they were written.
C2_FirstFailureAborts ==
  (mode = "batch" /\ failedAt # 0) =>
    /\ pc = "exit"
    /\ outcome = "error"
    /\ calls = [k \in 1..failedAt |-> k]
    /\ Len(wrote) = failedAt - 1
    /\ \A j \in 1..(failedAt - 1) :
         /\ wrote[j].path = TablePath(j)
         /\ fs[wrote[j].path] = wrote[j].content

C2_Witness == mode = "batch" /\ failedAt = 9 /\ Len(wrote) = 8 /\ dirExists

\* C3: with the output directory missing, the run ends in a filesystem error
\* (at the first save) and no file is ever created.
C3_MissingDirectory ==
  /\ [](~dirExists =>
          /\ \A p \in DOMAIN fs : fs[p] = NoFile
          /\ wrote = <<>>
          /\ (pc = "exit" => outcome = "error" /\ failedAt = 1))
  /\ [](~dirExists => <>(pc = "exit" /\ outcome = "error"))

C3_Witness == ~dirExists /\ pc = "exit" /\ outcome = "error" /\ Len(calls) = 1

IsCreated(k) == stdout[k].kind = "Created"

\* C4: standard output is one "Created" line per icon, each after the icon's
\* file was written and in table order, then the summary line, printed only
\* after all 17 entries and reporting 17; a run failing at entry k has
\* printed k-1 "Created" lines and no summary.
C4_StdoutTrace ==
  mode = "batch" =>
    /\ \A k \in 1..Len(stdout) :
         IsCreated(k) =>
           /\ k <= Len(wrote)
           /\ stdout[k].n = SpecTable[k][1]
           /\ stdout[k].path = TablePath(k)
           /\ wrote[k].path = TablePath(k)
           /\ \A j \in 1..k : IsCreated(j)
    /\ Cardinality({ k \in 1..Len(stdout) : IsCreated(k) }) \in {Len(wrote) - 1, Len(wrote)}
    /\ \A k \in 1..Len(stdout) :
         stdout[k].kind = "Generated" =>
           /\ k = 18
           /\ Len(wrote) = 17
           /\ stdout[k].n = 17
    /\ (pc = "exit" /\ outcome = "success") =>
         /\ Len(stdout) >= 18
         /\ stdout[18].kind = "Generated"
    /\ failedAt # 0 =>
         /\ Len(stdout) = failedAt - 1
         /\ \A k \in 1..Len(stdout) : IsCreated(k)

C4_Witness == Succeeded /\ Len(stdout) = 19 /\ stdout[18].n = 17

\* the white pixels of a canvas
WhitePixels(im) == { p \in Canvas(im) : Pixel(im, p[1], p[2]) = WHITE }

\* the offsets that centre an extent w in n, up to the parity of n - w
CentredAt(n, w) == { a \in 0..n : (n - w - a) - a \in {-1, 0, 1} }

Bar(a, b, w, h) == (a..(a + w - 1)) \X (b..(b + h - 1))

\* C5: the cross is a vertical bar size \div 8 wide and size \div 2 tall and a
\* horizontal bar size \div 2 wide and size \div 8 tall, both centred.
C5_CrossGeometry ==
  (mode = "single" /\ pc = "border") =>
    \E a \in CentredAt(size, size \div 8), b \in CentredAt(size, size \div 2),
       c \in CentredAt(size, size \div 2), d \in CentredAt(size, size \div 8) :
      WhitePixels(img) = Bar(a, b, size \div 8, size \div 2)
                           \cup Bar(c, d, size \div 2, size \div 8)

InRing(x, y, n, w) == x < w \/ y < w \/ x >= n - w \/ y >= n - w

\* C6: in the final image every pixel of the outermost ring of thickness
\* max(1, size \div 40) has the border colour.
C6_BorderRing ==
  (mode = "single" /\ Len(img.ops) = 3) =>
    \A p \in Canvas(img) :
      InRing(p[1], p[2], size, Max(1, size \div 40)) => Pixel(img, p[1], p[2]) = OUTLINE

\* a final image whose ring lies over part of the vertical bar
C6_Witness ==
  /\ mode = "single"
  /\ Len(img.ops) = 3
  /\ \E p \in Canvas(img) :
       /\ InRing(p[1], p[2], size, Max(1, size \div 40))
       /\ Covers(img.ops[1], p[1], p[2])

\* C7: the batch is sequential in table order: the files written are a prefix
\* of the table, every entry is passed to create_icon at most once, and an
\* entry is rendered only after the one before it was rendered and written.
C7_SequentialPrefix ==
  mode = "batch" =>
    /\ calls = [k \in 1..Len(calls) |-> k]
    /\ i = Len(calls)
    /\ \A j \in 1..Len(wrote) : wrote[j].path = TablePath(j)
    /\ Len(wrote) <= Len(calls)
    /\ Len(calls) <= Len(SpecTable)
    /\ Rendering => Len(wrote) = Len(calls) - 1 /\ Len(stdout) = Len(calls) - 1
    /\ \A j \in 1..Len(wrote) : fs[TablePath(j)] = wrote[j].content

C7_Witness == mode = "batch" /\ Rendering /\ Len(calls) = 17 /\ Len(wrote) = 16

\* C8: what is rendered depends on the edge length only: equal sizes give
\* equal file contents whatever the path, the file that was there and the
\* icons rendered before, so rows of equal pixel size hold identical files
\* and a second run leaves the directory as the first left it.
C8_Deterministic ==
  mode = "batch" =>
    /\ \A a \in rendered, b \in rendered : a[1] = b[1] => a[2] = b[2]
    /\ Succeeded =>
         \A j \in TableRows, k \in TableRows :
           SpecTable[j][1] = SpecTable[k][1] => fs[TablePath(j)] = fs[TablePath(k)]
    /\ (Succeeded /\ snapshot # <<>>) => fs = snapshot[1]

C8_Witness == Succeeded /\ run = 2 /\ snapshot # <<>>

\* C9: for size in 1..7 create_icon raises nothing while drawing and the
\* final image has no white pixel.
C9_DegenerateInvisible ==
  (mode = "single" /\ size \in 1..7) =>
    /\ (outcome = "error" => Len(img.ops) = 3)
    /\ (Len(img.ops) = 3 => WhitePixels(img) = {})

\* C10: the 17 output paths are pairwise distinct, no call of a run writes
\* over a file an earlier call of the run wrote, and between iterations the
\* run has written as many files as it has completed create_icon calls.
C10_DistinctPaths ==
  mode = "batch" =>
    /\ Cardinality(Paths) = 17
    /\ \A j \in 1..Len(wrote), k \in 1..Len(wrote) :
         j # k => wrote[j].path # wrote[k].path
    /\ pc = "loop" => Cardinality(WrittenPaths) = Len(calls)

C10_Witness == mode = "batch" /\ pc = "loop" /\ Cardinality(WrittenPaths) = 17

====
